---------------------------- MODULE Spec2Model ----------------------------
(***************************************************************************)
(* A model of virt-perf-scripts' fio reporting code:                       *)
(*   src/network/GenerateNetworkTestReport.py  (class FioTestReporter and  *)
(*       generate_fio_test_report: log -> raw data -> KPIs -> report)      *)
(*   src/block/GenerateBenchmarkReport.py      (class FioBenchmarkReporter *)
(*       test(): base/test comparison)                                     *)
(*                                                                         *)
(* Python values are represented as follows.                               *)
(*   None / a value      <<>> / <<v>>                                      *)
(*   dict                a function whose DOMAIN is the set of keys        *)
(*   list                a sequence; Python index i is TLA+ index i + 1    *)
(*   str in a table cell <<1, c1, ..., cn>>  (character codes)             *)
(*   int in a table cell <<0, n>>                                          *)
(*   float n/d           <<2, n, d>>  (in lowest terms)                    *)
(***************************************************************************)
EXTENDS Integers, Sequences, FiniteSets, TLC

VARIABLES
    pc,             \* position of the running script
    listing,        \* os.listdir(result_path): the files of the batch
    fidx,           \* loop position in the listing / in raw_data_list
    fs,             \* temporary artifacts that exist on disk
    raw_data_list,  \* FioTestReporter.raw_data_list
    perf_kpi_list,  \* FioTestReporter.perf_kpi_list
    df_report,      \* FioTestReporter.df_report
    return_value,   \* generate_fio_test_report's return_value
    exit_code,      \* the status the process exited with (<<>> while running)
    arg,            \* argument of the function under test (function specs)
    res,            \* its return value
    df_base,        \* FioBenchmarkReporter.df_base
    df_test,        \* FioBenchmarkReporter.df_test
    bench_report    \* FioBenchmarkReporter.df_report

vars == <<pc, listing, fidx, fs, raw_data_list, perf_kpi_list, df_report,
          return_value, exit_code, arg, res, df_base, df_test, bench_report>>

None == <<>>
Some(v) == <<v>>

\* ------------------------------------------------------------------------
\* Bounds of the model
\* ------------------------------------------------------------------------
MaxLines == 5

\* ------------------------------------------------------------------------
\* Lines of a fio log.  kind says how the line starts and what it holds:
\*   "open"    starts with '{' and holds nothing else that closes it
\*   "object"  starts with '{' and is a complete one-line JSON object
\*   "close"   starts with '}'
\*   "member"  one top-level member  "key": value  of the JSON object
\*             (indented, so it starts with neither brace)
\*   "text"    any other text that starts with neither brace
\* ------------------------------------------------------------------------
Line(kind, key, val) == [kind |-> kind, key |-> key, val |-> val]

\* re.search(r'^{', line)
StartsWithOpenBrace(line) == line.kind \in {"open", "object"}

\* re.search(r'^}', line)
StartsWithCloseBrace(line) == line.kind = "close"

\* One while loop of the scan: from index num (0-based) to the first line
\* satisfying the test; hit = FALSE when the loop ran off the end
\* (num = len(file_content)).
RECURSIVE ScanOpen(_, _)
ScanOpen(file_content, num) ==
    IF num < Len(file_content)
    THEN IF StartsWithOpenBrace(file_content[num + 1])
         THEN [hit |-> TRUE, num |-> num]
         ELSE ScanOpen(file_content, num + 1)
    ELSE [hit |-> FALSE, num |-> num]

RECURSIVE ScanClose(_, _)
ScanClose(file_content, num) ==
    IF num < Len(file_content)
    THEN IF StartsWithCloseBrace(file_content[num + 1])
         THEN [hit |-> TRUE, num |-> num]
         ELSE ScanClose(file_content, num + 1)
    ELSE [hit |-> FALSE, num |-> num]

\* "Locate the first json block": begin = end = num = 0, then the two loops;
\* the second loop resumes at the num the first one stopped at.
LocateBlock(file_content) ==
    LET s1 == ScanOpen(file_content, 0)
        s2 == ScanClose(file_content, s1.num)
    IN  [begin |-> IF s1.hit THEN s1.num ELSE 0,
         end   |-> IF s2.hit THEN s2.num ELSE 0]

\* (the slice without its last line)
SliceExclusive(file_content, begin, end) ==
    SubSeq(file_content, begin + 1, end)

\* file_content[begin:end + 1]
Slice(file_content, begin, end) ==
    SubSeq(file_content, begin + 1, end + 1)

\* dict built from member lines; a repeated key keeps its last value, as
\* json.load does.
RECURSIVE DictOf(_)
DictOf(members) ==
    IF members = <<>>
    THEN <<>>
    ELSE LET last == members[Len(members)]
         IN  (last.key :> last.val) @@ DictOf(SubSeq(members, 1, Len(members) - 1))

\* (the test with > in place of >=)
NoValidBlockStrict(begin, end) == begin > end

\* if begin >= end: "Cannot found validate json block"
NoValidBlock(begin, end) == begin >= end

\* json.load of the written block: the whole text must be one JSON document.
\* ok = FALSE stands for the JSONDecodeError.
\* (Under Python 2 the strings of the result are byteified, which leaves
\* keys and values as they are.)
JsonLoad(block) ==
    IF Len(block) = 1 /\ block[1].kind = "object"
    THEN [ok |-> TRUE, value |-> <<>>]
    ELSE IF /\ Len(block) >= 2
            /\ block[1].kind = "open"
            /\ block[Len(block)].kind = "close"
            /\ \A k \in 2..(Len(block) - 1) : block[k].kind = "member"
         THEN [ok |-> TRUE, value |-> DictOf(SubSeq(block, 2, Len(block) - 1))]
         ELSE [ok |-> FALSE, value |-> <<>>]

\* _get_raw_data_from_fio_log(data_file), for a data_file that is not ''
\* (the loader passes a path).  readable = FALSE stands for an
\* exception while opening or reading data_file.  json_left says whether
\* data_file + '.json' exists when the function returns.
get_raw_data_from_fio_log(readable, file_content) ==
    IF ~readable
    THEN [result |-> 1, raw_data |-> None, json_left |-> FALSE]
    ELSE LET blk == LocateBlock(file_content)
         IN  IF NoValidBlock(blk.begin, blk.end)
             THEN [result |-> 1, raw_data |-> None, json_left |-> FALSE]
             ELSE LET json_data == JsonLoad(Slice(file_content, blk.begin, blk.end))
                  IN  IF ~json_data.ok
                      THEN [result |-> 1, raw_data |-> None, json_left |-> TRUE]
                      ELSE [result |-> 0, raw_data |-> Some(json_data.value),
                            json_left |-> FALSE]

\* ------------------------------------------------------------------------
\* Values held in a KPI record and in a table cell
\* ------------------------------------------------------------------------
IntV(n) == <<0, n>>
StrV(codes) == <<1>> \o codes
FloatV(n, d) == <<2, n, d>>

IsInt(v) == v[1] = 0
IsStr(v) == v[1] = 1
IsFloat(v) == v[1] = 2
IsNumber(v) == IsInt(v) \/ IsFloat(v)

\* numerator and denominator of a number
NumOf(v) == v[2]
DenOf(v) == IF IsFloat(v) THEN v[3] ELSE 1

\* the 'NaN' string the code uses for "unavailable"
NaN == StrV(<<78, 97, 78>>)

Abs(n) == IF n < 0 THEN -n ELSE n

RECURSIVE Gcd(_, _)
Gcd(a, b) == IF b = 0 THEN a ELSE Gcd(b, a % b)

\* a float in lowest terms, so that equal floats are equal values
MkFloat(n, d) ==
    LET g == Gcd(Abs(n), d)
    IN  IF g = 0 THEN FloatV(0, 1) ELSE FloatV(n \div g, d \div g)

\* x / k for a float constant k (1024.0, 1000000.0): always a float
DivByFloat(x, k) == MkFloat(NumOf(x), DenOf(x) * k)

\* a + b: int + int is an int, anything else a float
Add(a, b) ==
    IF IsInt(a) /\ IsInt(b)
    THEN IntV(NumOf(a) + NumOf(b))
    ELSE MkFloat((NumOf(a) * DenOf(b)) + (NumOf(b) * DenOf(a)),
                 DenOf(a) * DenOf(b))

\* int(x): the fractional part is discarded (truncation toward zero)
ToInt(x) ==
    IF NumOf(x) >= 0
    THEN IntV(NumOf(x) \div DenOf(x))
    ELSE IntV(-((-NumOf(x)) \div DenOf(x)))

\* a < b for two numbers
NumLess(a, b) == (NumOf(a) * DenOf(b)) < (NumOf(b) * DenOf(a))

\* min(utils): the first of the smallest elements of a non-empty list
RECURSIVE MinOfList(_)
MinOfList(utils) ==
    IF Len(utils) = 1
    THEN utils[1]
    ELSE LET m == MinOfList(Tail(utils))
         IN  IF NumLess(m, utils[1]) THEN m ELSE utils[1]

Has(d, k) == k \in DOMAIN d

\* [x['util'] for x in raw_data['disk_util'] if ('aggr_util' not in x)]
RECURSIVE NonAggrUtils(_)
NonAggrUtils(disk_util) ==
    IF disk_util = <<>>
    THEN <<>>
    ELSE (IF Has(disk_util[1], "aggr_util")
          THEN <<>>
          ELSE <<disk_util[1]["util"]>>) \o NonAggrUtils(Tail(disk_util))

\* "Get util% of the disk if there is": ok = FALSE stands for the ValueError
\* of min() on an empty list.
DiskUtil(raw_data) ==
    IF Has(raw_data, "disk_util")
    THEN IF Len(raw_data["disk_util"]) = 1
         THEN [ok |-> TRUE, util |-> raw_data["disk_util"][1]["util"]]
         ELSE LET utils == NonAggrUtils(raw_data["disk_util"])
              IN  IF utils = <<>>
                  THEN [ok |-> FALSE, util |-> NaN]
                  ELSE [ok |-> TRUE, util |-> MinOfList(utils)]
    ELSE [ok |-> TRUE, util |-> NaN]

\* One side ('read' or 'write') of a job has everything lines 248-268 read.
SidePresent(job, side) ==
    /\ Has(job, side)
    /\ Has(job[side], "bw")
    /\ Has(job[side], "iops")
    /\ Has(job[side], "lat_ns")
    /\ Has(job[side]["lat_ns"], "mean")
    /\ Has(job[side], "clat_ns")
    /\ Has(job[side]["clat_ns"], "percentile")
    /\ Has(job[side]["clat_ns"]["percentile"], "90.000000")

\* No lookup of lines 242-283 raises (KeyError, IndexError, ValueError).
RequiredPresent(raw_data) ==
    /\ Has(raw_data, "jobs")
    /\ Len(raw_data["jobs"]) >= 1
    /\ Has(raw_data["jobs"][1], "job options")
    /\ \A k \in {"rw", "bs", "iodepth", "numjobs"} :
           Has(raw_data["jobs"][1]["job options"], k)
    /\ SidePresent(raw_data["jobs"][1], "read")
    /\ SidePresent(raw_data["jobs"][1], "write")
    /\ DiskUtil(raw_data).ok

\* eval(raw_data['jobs'][0]['job options']['description']) followed by
\* perf_kpi.update(dict).  The description text is modelled by what it
\* denotes as a literal: a mapping, some other literal (update raises
\* TypeError), or no expression at all (eval raises).  A missing description
\* raises KeyError.  Every one of these exceptions is caught at line 289 and
\* leaves perf_kpi as it was.
MergeDescription(perf_kpi, options) ==
    IF Has(options, "description") /\ options["description"].kind = "mapping"
    THEN options["description"].value @@ perf_kpi
    ELSE perf_kpi

\* (the defaults without the one for 'round')
FillDefaultsSkipRound(perf_kpi) ==
    perf_kpi @@ [k \in {"driver", "format", "backend"} |-> NaN]

\* if 'driver' not in perf_kpi: perf_kpi['driver'] = 'NaN'  (and so on)
FillDefaults(perf_kpi) ==
    perf_kpi @@ [k \in {"driver", "format", "round", "backend"} |-> NaN]

\* perf_kpi as built by lines 242-283
DerivedKpis(raw_data) ==
    LET job == raw_data["jobs"][1]
        options == job["job options"]
        rd == job["read"]
        wr == job["write"]
        r_bw == DivByFloat(rd["bw"], 1024)
        w_bw == DivByFloat(wr["bw"], 1024)
        r_iops == ToInt(rd["iops"])
        w_iops == ToInt(wr["iops"])
        r_lat == DivByFloat(rd["lat_ns"]["mean"], 1000000)
        w_lat == DivByFloat(wr["lat_ns"]["mean"], 1000000)
        r_clat90 == DivByFloat(rd["clat_ns"]["percentile"]["90.000000"], 1000000)
        w_clat90 == DivByFloat(wr["clat_ns"]["percentile"]["90.000000"], 1000000)
    IN  ("rw" :> options["rw"]) @@ ("bs" :> options["bs"])
        @@ ("iodepth" :> options["iodepth"]) @@ ("numjobs" :> options["numjobs"])
        @@ ("r-bw" :> r_bw) @@ ("w-bw" :> w_bw) @@ ("bw" :> Add(r_bw, w_bw))
        @@ ("r-iops" :> r_iops) @@ ("w-iops" :> w_iops)
        @@ ("iops" :> Add(r_iops, w_iops))
        @@ ("r-lat" :> r_lat) @@ ("w-lat" :> w_lat) @@ ("lat" :> Add(r_lat, w_lat))
        @@ ("r-clat90" :> r_clat90) @@ ("w-clat90" :> w_clat90)
        @@ ("clat90" :> Add(r_clat90, w_clat90))
        @@ ("util" :> DiskUtil(raw_data).util)

\* _get_kpis_from_raw_data(raw_data)
get_kpis_from_raw_data(raw_data) ==
    IF ~RequiredPresent(raw_data)
    THEN [result |-> 1, perf_kpi |-> None]
    ELSE [result |-> 0,
          perf_kpi |-> Some(FillDefaults(
              MergeDescription(DerivedKpis(raw_data),
                               raw_data["jobs"][1]["job options"])))]

\* ------------------------------------------------------------------------
\* Inputs
\* ------------------------------------------------------------------------
MaxDisks == 3

SeqsUpTo(S, n) == UNION {[1..k -> S] : k \in 0..n}

\* strings that occur in the inputs
S_read == StrV(<<114, 101, 97, 100>>)
S_4k == StrV(<<52, 107>>)
S_1 == StrV(<<49>>)
S_4 == StrV(<<52>>)
S_16 == StrV(<<49, 54>>)
S_scsi == StrV(<<115, 99, 115, 105>>)
S_raw == StrV(<<114, 97, 119>>)
S_nvme == StrV(<<110, 118, 109, 101>>)
S_write == StrV(<<119, 114, 105, 116, 101>>)

\* jobs[0]['read'] or jobs[0]['write'] as fio writes it; pkey is the key of
\* the one percentile the record carries
Side(bw, iops, mean, pkey, pval) ==
    [bw |-> bw, iops |-> iops, lat_ns |-> [mean |-> mean],
     clat_ns |-> [percentile |-> (pkey :> pval)]]

\* the lines of a log: a text line, the JSON object, a text line
LogLines(raw_data) ==
    <<Line("text", "", <<>>), Line("open", "", <<>>)>>
    \o (IF Has(raw_data, "jobs")
        THEN <<Line("member", "jobs", raw_data["jobs"])>> ELSE <<>>)
    \o (IF Has(raw_data, "disk_util")
        THEN <<Line("member", "disk_util", raw_data["disk_util"])>> ELSE <<>>)
    \o <<Line("close", "", <<>>), Line("text", "", <<>>)>>

\* the descriptions a job may carry: mappings over these keys, a literal
\* that is no mapping, and a text that is no expression
DescriptionValues ==
    ("driver" :> S_scsi) @@ ("format" :> S_raw) @@ ("round" :> IntV(1))
    @@ ("backend" :> S_nvme) @@ ("util" :> IntV(5)) @@ ("rw" :> S_write)

Descriptions ==
    {[kind |-> "mapping", value |-> [k \in K |-> DescriptionValues[k]]] :
        K \in SUBSET (DOMAIN DescriptionValues)}
    \cup {[kind |-> "other", value |-> <<>>], [kind |-> "invalid", value |-> <<>>]}

\* disk_util entries
DiskEntries ==
    {("util" :> IntV(u)) : u \in {10, 20}}
    \cup {("util" :> IntV(u)) @@ ("aggr_util" :> IntV(15)) : u \in {10, 20}}

\* job options with and without 'rw' and 'description'
OptionSets ==
    LET base == [bs |-> S_4k, iodepth |-> S_4, numjobs |-> S_1]
    IN  {base @@ r @@ d :
            r \in {<<>>, ("rw" :> S_read)},
            d \in {<<>>} \cup {("description" :> x) : x \in Descriptions}}

\* the raw data of one run, complete or with something missing
RawDataInputs ==
    LET rd == Side(IntV(1024), FloatV(109, 10), IntV(2000000), "90.000000", IntV(3000000))
        wr == Side(IntV(0), FloatV(59, 10), IntV(0), "90.000000", IntV(0))
        wr99 == Side(IntV(0), FloatV(59, 10), IntV(0), "99.000000", IntV(0))
        jobsets == {<<>>}
                   \cup {<<("job options" :> o) @@ [read |-> rd, write |-> w]>> :
                            o \in OptionSets, w \in {wr, wr99}}
                   \cup {<<("job options" :> o) @@ [read |-> rd]>> : o \in OptionSets}
    IN  {j @@ d :
            j \in {<<>>} \cup {("jobs" :> js) : js \in jobsets},
            d \in {<<>>} \cup {("disk_util" :> du) : du \in SeqsUpTo(DiskEntries, MaxDisks)}}

\* ------------------------------------------------------------------------
\* Function specifications: the argument is drawn, the function is called
\* ------------------------------------------------------------------------
Idle ==
    /\ listing = <<>>
    /\ fidx = 0
    /\ fs = {}
    /\ raw_data_list = <<>>
    /\ perf_kpi_list = <<>>
    /\ df_report = None
    /\ return_value = None
    /\ exit_code = None
    /\ df_base = <<>>
    /\ df_test = <<>>
    /\ bench_report = None

ExtractInputs ==
    LET tokens == {Line("open", "", 0), Line("object", "", 0), Line("close", "", 0),
                   Line("text", "", 0), Line("member", "a", 1), Line("member", "b", 2)}
    IN  [readable : BOOLEAN, file_content : SeqsUpTo(tokens, MaxLines)]

InitExtract ==
    /\ Idle
    /\ pc = "call"
    /\ arg \in ExtractInputs
    /\ res = None

CallExtract ==
    /\ pc = "call"
    /\ res' = get_raw_data_from_fio_log(arg.readable, arg.file_content)
    /\ pc' = "return"
    /\ UNCHANGED <<listing, fidx, fs, raw_data_list, perf_kpi_list, df_report,
                   return_value, exit_code, arg, df_base, df_test, bench_report>>

SpecExtract == InitExtract /\ [][CallExtract]_vars

InitKpi ==
    /\ Idle
    /\ pc = "call"
    /\ arg \in RawDataInputs
    /\ res = None

CallKpi ==
    /\ pc = "call"
    /\ res' = get_kpis_from_raw_data(arg)
    /\ pc' = "return"
    /\ UNCHANGED <<listing, fidx, fs, raw_data_list, perf_kpi_list, df_report,
                   return_value, exit_code, arg, df_base, df_test, bench_report>>

SpecKpi == InitKpi /\ [][CallKpi]_vars

\* iops values are drawn in tenths, from 0.0 up to MaxIopsTenths / 10
MaxIopsTenths == 12

\* complete runs that differ in jobs[0]['read']['iops'],
\* jobs[0]['write']['iops'] and the description: none, one that supplies a
\* tag, one that supplies an 'iops' of its own
IopsInputs ==
    LET base == [rw |-> S_read, bs |-> S_4k, iodepth |-> S_4, numjobs |-> S_1]
        vals == {MkFloat(n, 10) : n \in 0..MaxIopsTenths}
                \cup {FloatV(109, 10), FloatV(59, 10)}
        descs == {<<>>,
                  ("description" :> [kind |-> "mapping", value |-> ("round" :> IntV(1))]),
                  ("description" :> [kind |-> "mapping", value |-> ("iops" :> IntV(16))])}
    IN  {("jobs" :> <<("job options" :> (base @@ d))
                      @@ [read  |-> Side(IntV(1024), r, IntV(2000000), "90.000000", IntV(3000000)),
                          write |-> Side(IntV(0), w, IntV(0), "90.000000", IntV(0))]>>) :
            r \in vals, w \in vals, d \in descs}

InitIops ==
    /\ Idle
    /\ pc = "call"
    /\ arg \in IopsInputs
    /\ res = None

SpecIops == InitIops /\ [][CallKpi]_vars

\* ------------------------------------------------------------------------
\* The report DataFrame: a sequence of rows, each with its index label and
\* its cells by column
\* ------------------------------------------------------------------------
\* the columns of _create_report_dataframe, and what rename() calls them
ReportColumns ==
    ("backend" :> "Backend") @@ ("driver" :> "Driver") @@ ("format" :> "Format")
    @@ ("rw" :> "RW") @@ ("bs" :> "BS") @@ ("iodepth" :> "IODepth")
    @@ ("numjobs" :> "Numjobs") @@ ("round" :> "Round") @@ ("bw" :> "BW(MiB/s)")
    @@ ("iops" :> "IOPS") @@ ("lat" :> "LAT(ms)") @@ ("clat90" :> "CLAT90(ms)")
    @@ ("util" :> "Util(%)")

\* the key whose display label is c
KeyOf(c) == CHOOSE k \in DOMAIN ReportColumns : ReportColumns[k] = c

Labels == {ReportColumns[k] : k \in DOMAIN ReportColumns}

\* pd.DataFrame(perf_kpi_list, columns=[...]) and rename(columns=...)
create_report_dataframe(kpi_list) ==
    [i \in 1..Len(kpi_list) |->
        [index |-> i - 1, cells |-> [c \in Labels |-> kpi_list[i][KeyOf(c)]]]]

\* a < b for two strings (after the type tag): by character code, a proper
\* prefix first
RECURSIVE LexLess(_, _)
LexLess(a, b) ==
    IF b = <<>> THEN FALSE
    ELSE IF a = <<>> THEN TRUE
    ELSE IF a[1] # b[1] THEN a[1] < b[1]
    ELSE LexLess(Tail(a), Tail(b))

\* a < b for two cells of one column, as sort_values orders them: numbers
\* by value, strings by character, and in a column that holds both the
\* numbers before the strings
CellLess(a, b) ==
    IF IsStr(a) /\ IsStr(b) THEN LexLess(Tail(a), Tail(b))
    ELSE IF IsStr(a) THEN FALSE
    ELSE IF IsStr(b) THEN TRUE
    ELSE NumLess(a, b)

\* (the sort columns before v2.0.2, without 'Round')
SortByWithoutRound ==
    <<"Backend", "Driver", "Format", "RW", "BS", "IODepth", "Numjobs">>

\* by=[...] of sort_values
SortBy ==
    <<"Backend", "Driver", "Format", "RW", "BS", "IODepth", "Numjobs", "Round">>

\* row a sorts before row b: the first column of by that tells them apart
RECURSIVE RowLess(_, _, _)
RowLess(a, b, by) ==
    IF by = <<>> THEN FALSE
    ELSE IF CellLess(a.cells[by[1]], b.cells[by[1]]) THEN TRUE
    ELSE IF CellLess(b.cells[by[1]], a.cells[by[1]]) THEN FALSE
    ELSE RowLess(a, b, Tail(by))

\* row inserted into the sorted rows behind every row that does not sort
\* after it (the sort is stable)
RECURSIVE InsertRow(_, _, _)
InsertRow(sorted, row, by) ==
    IF sorted = <<>> THEN <<row>>
    ELSE IF RowLess(row, sorted[1], by) THEN <<row>> \o sorted
    ELSE <<sorted[1]>> \o InsertRow(Tail(sorted), row, by)

RECURSIVE SortRows(_, _)
SortRows(rows, by) ==
    IF rows = <<>> THEN <<>>
    ELSE InsertRow(SortRows(SubSeq(rows, 1, Len(rows) - 1), by), rows[Len(rows)], by)

\* df.sort_values(by=[...])
sort_values(df) == SortRows(df, SortBy)

\* df.reset_index().drop(columns=['index'])
reset_index(df) == [i \in 1..Len(df) |-> [index |-> i - 1, cells |-> df[i].cells]]

\* round(x, 4) of a float (halves to the even neighbour); other cells as
\* they are
Round4(v) ==
    IF ~IsFloat(v) THEN v
    ELSE LET num == Abs(NumOf(v)) * 10000
             q == num \div DenOf(v)
             r == num % DenOf(v)
             k == IF 2 * r < DenOf(v) THEN q
                  ELSE IF 2 * r > DenOf(v) THEN q + 1
                  ELSE IF q % 2 = 0 THEN q ELSE q + 1
         IN  MkFloat(IF NumOf(v) < 0 THEN -k ELSE k, 10000)

\* df.round(4): only the columns whose dtype is numeric are rounded
round_dataframe(df) ==
    LET numeric(c) == \A i \in 1..Len(df) : IsNumber(df[i].cells[c])
    IN  [i \in 1..Len(df) |->
            [index |-> df[i].index,
             cells |-> [c \in Labels |->
                 IF numeric(c) THEN Round4(df[i].cells[c]) ELSE df[i].cells[c]]]]

\* _format_report_dataframe
format_report_dataframe(df) == round_dataframe(reset_index(sort_values(df)))

\* generate_report_dataframe
generate_report_dataframe(kpi_list) ==
    format_report_dataframe(create_report_dataframe(kpi_list))

\* ------------------------------------------------------------------------
\* generate_fio_test_report(result_path, report_csv)
\* ------------------------------------------------------------------------
MaxLogs == 3

\* A file of result_path.  ext is how its name ends; member says whether a
\* '.tar.gz' holds the '.fiolog' of its own name; file_content is the text
\* of the log (of the archived log for a '.tar.gz').
File(ext, member, file_content) ==
    [ext |-> ext, member |-> member, file_content |-> file_content]

\* the raw data of a complete run; fio writes the values of the job options
\* as JSON strings
RunData(iodepth, description, disk_util) ==
    LET options == [rw |-> S_read, bs |-> S_4k, iodepth |-> iodepth, numjobs |-> S_1]
                   @@ description
        rd == Side(IntV(1024), FloatV(109, 10), IntV(2000000), "90.000000", IntV(3000000))
        wr == Side(IntV(0), FloatV(59, 10), IntV(0), "90.000000", IntV(0))
    IN  ("jobs" :> <<("job options" :> options) @@ [read |-> rd, write |-> wr]>>)
        @@ disk_util

RoundTag(n) ==
    ("description" :> [kind |-> "mapping",
                       value |-> ("round" :> IntV(n)) @@ ("driver" :> S_scsi)])

\* a run whose job options lack 'rw'
RunDataWithoutRw ==
    LET rd == Side(IntV(1024), FloatV(109, 10), IntV(2000000), "90.000000", IntV(3000000))
    IN  ("jobs" :> <<("job options" :> [bs |-> S_4k, iodepth |-> S_4, numjobs |-> S_1])
                     @@ [read |-> rd, write |-> rd]>>)

\* the files a result_path may hold
FileCatalogue ==
    LET one_disk == ("disk_util" :> <<("util" :> FloatV(995, 10))>>)
        good == {RunData(S_4, RoundTag(2), one_disk), RunData(S_16, RoundTag(1), one_disk),
                 RunData(S_4, RoundTag(1), <<>>), RunData(S_4, <<>>, one_disk)}
        undecodable == <<Line("open", "", <<>>), Line("text", "", <<>>),
                         Line("close", "", <<>>)>>
        no_block == <<Line("text", "", <<>>)>>
    IN  {File("fiolog", FALSE, LogLines(r)) : r \in good}
        \cup {File("fiolog", FALSE, LogLines(RunDataWithoutRw)),
              File("fiolog", FALSE, undecodable),
              File("fiolog", FALSE, no_block),
              File("targz", TRUE, LogLines(RunData(S_4, RoundTag(2), <<>>))),
              File("targz", TRUE, undecodable),
              File("targz", FALSE, <<>>),
              File("other", FALSE, <<>>)}

Init ==
    /\ pc = "load"
    /\ listing \in SeqsUpTo(FileCatalogue, MaxLogs)
    /\ fidx = 1
    /\ fs = {}
    /\ raw_data_list = <<>>
    /\ perf_kpi_list = <<>>
    /\ df_report = None
    /\ return_value = None
    /\ exit_code = None
    /\ arg = <<>>
    /\ res = None
    /\ df_base = <<>>
    /\ df_test = <<>>
    /\ bench_report = None

\* filename.endswith('.fiolog') and os.path.isfile(filename), after a
\* '.tar.gz' was unpacked and filename set to the log it should hold
IsFioLog(f) == f.ext = "fiolog" \/ (f.ext = "targz" /\ f.member)

\* where data_file lies: a '.tar.gz' is unpacked into tmpfolder
DirOf(f) == IF f.ext = "targz" THEN "tmpfolder" ELSE "result_path"

\* (the append without the test of result)
AppendRawAlways(raw_list, f) ==
    IF IsFioLog(f)
    THEN LET r == get_raw_data_from_fio_log(TRUE, f.file_content)
         IN  Append(raw_list, IF r.result = 0 THEN r.raw_data[1] ELSE <<>>)
    ELSE raw_list

\* lines 201-204: the raw data list after one file
AppendRaw(raw_list, f) ==
    IF IsFioLog(f)
    THEN LET r == get_raw_data_from_fio_log(TRUE, f.file_content)
         IN  IF r.result = 0 THEN Append(raw_list, r.raw_data[1]) ELSE raw_list
    ELSE raw_list

\* the artifacts on disk after lines 195-202: tmpfolder for a '.tar.gz',
\* and data_file + '.json' if _get_raw_data_from_fio_log left it behind
ArtifactsOf(f, n) ==
    (IF f.ext = "targz" THEN {[what |-> "tmpfolder", dir |-> "/tmp", of |-> n]} ELSE {})
    \cup (IF IsFioLog(f) /\ get_raw_data_from_fio_log(TRUE, f.file_content).json_left
          THEN {[what |-> "json", dir |-> DirOf(f), of |-> n]}
          ELSE {})

\* os.system('[ -e {0} ] && rm -rf {0}'.format(tmpfolder))
RemoveTmpFolder(artifacts) ==
    {a \in artifacts : a.what # "tmpfolder" /\ a.dir # "tmpfolder"}

\* load_raw_data_from_fio_logs: one pass of the loop over os.listdir
LoadStep ==
    /\ pc = "load"
    /\ fidx <= Len(listing)
    /\ raw_data_list' = AppendRaw(raw_data_list, listing[fidx])
    /\ fs' = RemoveTmpFolder(fs \cup ArtifactsOf(listing[fidx], fidx))
    /\ fidx' = fidx + 1
    /\ UNCHANGED <<pc, listing, perf_kpi_list, df_report, return_value, exit_code,
                   arg, res, df_base, df_test, bench_report>>

\* load_raw_data_from_fio_logs returns 0; generate_fio_test_report goes on
LoadReturn ==
    /\ pc = "load"
    /\ fidx > Len(listing)
    /\ return_value' = Some(0)
    /\ pc' = "calc"
    /\ fidx' = 1
    /\ UNCHANGED <<listing, fs, raw_data_list, perf_kpi_list, df_report, exit_code,
                   arg, res, df_base, df_test, bench_report>>

\* calculate_performance_kpis: one pass of the loop over raw_data_list; a
\* failed extraction returns 1, and generate_fio_test_report exits with 1
CalcStep ==
    /\ pc = "calc"
    /\ fidx <= Len(raw_data_list)
    /\ LET r == get_kpis_from_raw_data(raw_data_list[fidx])
       IN  IF r.result = 0
           THEN /\ perf_kpi_list' = Append(perf_kpi_list, r.perf_kpi[1])
                /\ fidx' = fidx + 1
                /\ UNCHANGED <<pc, return_value, exit_code>>
           ELSE /\ return_value' = Some(1)
                /\ exit_code' = Some(1)
                /\ pc' = "exit"
                /\ UNCHANGED <<perf_kpi_list, fidx>>
    /\ UNCHANGED <<listing, fs, raw_data_list, df_report, arg, res, df_base, df_test,
                   bench_report>>

\* calculate_performance_kpis returns 0
CalcReturn ==
    /\ pc = "calc"
    /\ fidx > Len(raw_data_list)
    /\ return_value' = Some(0)
    /\ pc' = "report"
    /\ UNCHANGED <<listing, fidx, fs, raw_data_list, perf_kpi_list, df_report,
                   exit_code, arg, res, df_base, df_test, bench_report>>

\* fioreporter.generate_report_dataframe()
GenerateReport ==
    /\ pc = "report"
    /\ df_report' = Some(generate_report_dataframe(perf_kpi_list))
    /\ pc' = "csv"
    /\ UNCHANGED <<listing, fidx, fs, raw_data_list, perf_kpi_list, return_value,
                   exit_code, arg, res, df_base, df_test, bench_report>>

\* report_dataframe_to_csv, then exit(1) or exit(0); written = FALSE stands
\* for an error while writing the csv file
ReportToCsv ==
    /\ pc = "csv"
    /\ \E written \in BOOLEAN :
        /\ return_value' = Some(IF written THEN 0 ELSE 1)
        /\ exit_code' = Some(IF written THEN 0 ELSE 1)
    /\ pc' = "exit"
    /\ UNCHANGED <<listing, fidx, fs, raw_data_list, perf_kpi_list, df_report,
                   arg, res, df_base, df_test, bench_report>>

Next ==
    \/ LoadStep
    \/ LoadReturn
    \/ CalcStep
    \/ CalcReturn
    \/ GenerateReport
    \/ ReportToCsv

Spec == Init /\ [][Next]_vars

\* ------------------------------------------------------------------------
\* Several invocations in one process.  raw_data_list and perf_kpi_list are
\* attributes of the class FioTestReporter (lines 60 and 64); the methods
\* only ever append to them through self, so every reporter of the process
\* appends to the same two lists.  The exit() that ends
\* generate_fio_test_report raises SystemExit, which the host of the
\* process catches before it invokes the pipeline again.
\* ------------------------------------------------------------------------
MaxReuseLogs == 2

\* no further invocation, and no further calculation, once a list of the
\* class holds MaxShared entries
MaxShared == 3

\* the files a result_path may hold in these runs
ReuseCatalogue ==
    {File("fiolog", FALSE, LogLines(RunData(S_4, RoundTag(1), <<>>))),
     File("fiolog", FALSE, LogLines(RunData(S_16, RoundTag(2), <<>>))),
     File("fiolog", FALSE, LogLines(RunDataWithoutRw)),
     File("fiolog", FALSE, <<Line("text", "", <<>>)>>)}

\* the first invocation of the process: the class has just been defined
InitReuse ==
    /\ pc = "load"
    /\ listing \in SeqsUpTo(ReuseCatalogue, MaxReuseLogs)
    /\ fidx = 1
    /\ fs = {}
    /\ raw_data_list = <<>>
    /\ perf_kpi_list = <<>>
    /\ df_report = None
    /\ return_value = None
    /\ exit_code = None
    /\ arg = <<>>
    /\ res = None
    /\ df_base = <<>>
    /\ df_test = <<>>
    /\ bench_report = None

\* fioreporter = FioTestReporter() of a further invocation, on another
\* result_path: the new instance has no attributes of its own, so its
\* raw_data_list and perf_kpi_list are the lists of the class, with whatever
\* earlier reporters appended; its df_report is the class's None.
Invoke ==
    /\ pc = "exit"
    /\ Len(raw_data_list) < MaxShared
    /\ Len(perf_kpi_list) < MaxShared
    /\ listing' \in SeqsUpTo(ReuseCatalogue, MaxReuseLogs)
    /\ pc' = "load"
    /\ fidx' = 1
    /\ df_report' = None
    /\ return_value' = None
    /\ exit_code' = None
    /\ UNCHANGED <<fs, raw_data_list, perf_kpi_list, arg, res, df_base, df_test,
                   bench_report>>

\* calculate_performance_kpis() called once more on the same reporter after
\* it returned 0: the loop runs over self.raw_data_list again and appends
\* to self.perf_kpi_list, which no line of the method empties
CalcAgain ==
    /\ pc = "report"
    /\ Len(perf_kpi_list) < MaxShared
    /\ pc' = "calc"
    /\ fidx' = 1
    /\ UNCHANGED <<listing, fs, raw_data_list, perf_kpi_list, df_report,
                   return_value, exit_code, arg, res, df_base, df_test, bench_report>>

NextReuse ==
    \/ LoadStep
    \/ LoadReturn
    \/ CalcStep
    \/ CalcReturn
    \/ CalcAgain
    \/ GenerateReport
    \/ ReportToCsv
    \/ Invoke

SpecReuse == InitReuse /\ [][NextReuse]_vars

\* ------------------------------------------------------------------------
\* FioBenchmarkReporter.test(): the comparison of a base and a test table
\* ------------------------------------------------------------------------
MaxRows == 2

\* more float values: nan, the square root of n/d, and the significance
\* 1 - pvalue of scipy's ttest_ind, which is kept as the two samples it was
\* computed from
NanF == <<5>>
SqrtV(q) == <<3, NumOf(q), DenOf(q)>>
IsNan(v) == v[1] = 5

FSub(a, b) == MkFloat((NumOf(a) * DenOf(b)) - (NumOf(b) * DenOf(a)), DenOf(a) * DenOf(b))
FMul(a, b) == MkFloat(NumOf(a) * NumOf(b), DenOf(a) * DenOf(b))
FDiv(a, b) ==
    IF NumOf(b) > 0
    THEN MkFloat(NumOf(a) * DenOf(b), DenOf(a) * NumOf(b))
    ELSE MkFloat(-(NumOf(a) * DenOf(b)), DenOf(a) * (-NumOf(b)))

RECURSIVE SumOf(_)
SumOf(xs) == IF xs = <<>> THEN IntV(0) ELSE Add(xs[1], SumOf(Tail(xs)))

\* Series.mean(): nan for an empty selection
Mean(xs) ==
    IF xs = <<>> THEN NanF
    ELSE MkFloat(NumOf(SumOf(xs)), DenOf(SumOf(xs)) * Len(xs))

\* Series.std(ddof=1) / mean * 100: nan for fewer than two values.  (A mean
\* of 0 would divide by zero; the indicator values of the inputs are
\* positive.)
PercentSd(xs) ==
    IF Len(xs) < 2 \/ NumOf(Mean(xs)) = 0 THEN NanF
    ELSE LET m == Mean(xs)
             sq == [i \in 1..Len(xs) |-> FMul(FSub(xs[i], m), FSub(xs[i], m))]
             variance == FDiv(SumOf(sq), IntV(Len(xs) - 1))
         IN  SqrtV(FMul(FDiv(variance, FMul(m, m)), IntV(10000)))

\* (test_avg - base_avg) / base_avg * 100
PercentDiff(base_avg, test_avg) ==
    IF IsNan(base_avg) \/ IsNan(test_avg) \/ NumOf(base_avg) = 0 THEN NanF
    ELSE FMul(FDiv(FSub(test_avg, base_avg), base_avg), IntV(100))

RECURSIVE Flatten(_)
Flatten(xs) ==
    IF xs = <<>> THEN <<>> ELSE <<NumOf(xs[1]), DenOf(xs[1])>> \o Flatten(Tail(xs))

\* _get_significance(array1, array2), paired = False
get_significance(array1, array2) == <<4, Len(array1)>> \o Flatten(array1) \o Flatten(array2)

BucketColumns == <<"Backend", "Driver", "Format", "RW", "BS", "IODepth", "Numjobs">>

Indicators == {"BW", "IOPS", "LAT", "Util"}
Statistics == {"BASE-AVG", "BASE-%SD", "TEST-AVG", "TEST-%SD", "%DIFF", "SIGNI"}

\* the column of the input tables that holds an indicator
IndicatorColumn ==
    ("BW" :> "BW(MiB/s)") @@ ("IOPS" :> "IOPS") @@ ("LAT" :> "LAT(ms)")
    @@ ("Util" :> "Util(%)")

BucketOf(row) == [k \in 1..Len(BucketColumns) |-> row.cells[BucketColumns[k]]]

\* df[[...7 columns...]].drop_duplicates(): the first row of every bucket
RECURSIVE DropDuplicates(_)
DropDuplicates(df) ==
    IF df = <<>> THEN <<>>
    ELSE LET init == SubSeq(df, 1, Len(df) - 1)
             last == df[Len(df)]
         IN  IF \E i \in 1..Len(init) : BucketOf(init[i]) = BucketOf(last)
             THEN DropDuplicates(init)
             ELSE Append(DropDuplicates(init), last)

\* lines 49-88: the distinct buckets of df_test, sorted, re-indexed, with
\* the 24 statistics columns inserted as 0
create_benchmark_report(test) ==
    LET sorted == SortRows(DropDuplicates(test), BucketColumns)
    IN  [i \in 1..Len(sorted) |->
            [index |-> i - 1,
             bucket |-> BucketOf(sorted[i]),
             stats |-> [c \in Statistics \X Indicators |-> IntV(0)]]]

\* df[(df['Backend'] == series['Backend']) & ... ][column]
RECURSIVE Matching(_, _, _)
Matching(df, bucket, column) ==
    IF df = <<>> THEN <<>>
    ELSE (IF BucketOf(df[1]) = bucket THEN <<df[1].cells[column]>> ELSE <<>>)
         \o Matching(Tail(df), bucket, column)

\* the six statistics of one indicator for one bucket (lines 113-122 for
\* the bandwidth)
Sextuple(base, test, bucket, ind) ==
    LET b == Matching(base, bucket, IndicatorColumn[ind])
        t == Matching(test, bucket, IndicatorColumn[ind])
    IN  [s \in Statistics |->
            CASE s = "BASE-AVG" -> Mean(b)
              [] s = "BASE-%SD" -> PercentSd(b)
              [] s = "TEST-AVG" -> Mean(t)
              [] s = "TEST-%SD" -> PercentSd(t)
              [] s = "%DIFF" -> PercentDiff(Mean(b), Mean(t))
              [] s = "SIGNI" -> get_significance(b, t)]

\* the indicators the loop body computes
ComputedIndicators == {"BW"}

\* lines 92-130: the body of the loop for one row of the report, and
\* df_report.iloc[index] = series
compare_row(report, base, test, n) ==
    [report EXCEPT ![n].stats =
        [c \in Statistics \X Indicators |->
            IF c[2] \in ComputedIndicators
            THEN Sextuple(base, test, report[n].bucket, c[2])[c[1]]
            ELSE report[n].stats[c]]]

\* a row of a report csv: one run
CsvRow(iodepth, round, bw) ==
    [index |-> 0,
     cells |-> ("Backend" :> S_nvme) @@ ("Driver" :> S_scsi) @@ ("Format" :> S_raw)
               @@ ("RW" :> S_read) @@ ("BS" :> S_4k) @@ ("IODepth" :> IntV(iodepth))
               @@ ("Numjobs" :> IntV(1)) @@ ("Round" :> IntV(round))
               @@ ("BW(MiB/s)" :> IntV(bw)) @@ ("IOPS" :> IntV(10 * bw))
               @@ ("LAT(ms)" :> FloatV(5, 2)) @@ ("CLAT90(ms)" :> IntV(3))
               @@ ("Util(%)" :> IntV(50))]

\* the tables the two csv files may hold
CsvTables ==
    LET rows == {CsvRow(d, 1, bw) : d \in {4, 16}, bw \in {100, 200}}
    IN  {reset_index(t) : t \in SeqsUpTo(rows, MaxRows)}

InitBench ==
    /\ Idle
    /\ pc = "read"
    /\ arg \in [base : CsvTables, test : CsvTables]
    /\ res = None

\* lines 43-47: pd.read_csv of the two files
ReadCsv ==
    /\ pc = "read"
    /\ df_base' = arg.base
    /\ df_test' = arg.test
    /\ pc' = "create"
    /\ UNCHANGED <<listing, fidx, fs, raw_data_list, perf_kpi_list, df_report,
                   return_value, exit_code, arg, res, bench_report>>

\* lines 49-88
CreateBenchReport ==
    /\ pc = "create"
    /\ bench_report' = Some(create_benchmark_report(df_test))
    /\ pc' = "iterrows"
    /\ UNCHANGED <<listing, fidx, fs, raw_data_list, perf_kpi_list, df_report,
                   return_value, exit_code, arg, res, df_base, df_test>>

\* lines 92-130: the loop is left by the break at the end of its first
\* pass, or at once over an empty report
CompareRows ==
    /\ pc = "iterrows"
    /\ bench_report' =
           IF bench_report[1] = <<>>
           THEN bench_report
           ELSE Some(compare_row(bench_report[1], df_base, df_test, 1))
    /\ pc' = "done"
    /\ UNCHANGED <<listing, fidx, fs, raw_data_list, perf_kpi_list, df_report,
                   return_value, exit_code, arg, res, df_base, df_test>>

NextBench == ReadCsv \/ CreateBenchReport \/ CompareRows

SpecBench == InitBench /\ [][NextBench]_vars

\* ------------------------------------------------------------------------
\* Properties
\* ------------------------------------------------------------------------
\* the 1-based positions of the lines that start with '{' / with '}'
OpenLines(fc) == {i \in 1..Len(fc) : fc[i].kind \in {"open", "object"}}
CloseLines(fc) == {i \in 1..Len(fc) : fc[i].kind = "close"}
Least(S) == CHOOSE m \in S : \A x \in S : m <= x

\* a line that starts with '}' lies at or after the first that starts with '{'
HasBlock(fc) ==
    /\ OpenLines(fc) # {}
    /\ \E j \in CloseLines(fc) : j >= Least(OpenLines(fc))

FirstOpen(fc) == Least(OpenLines(fc))
FirstCloseAfterOpen(fc) == Least({j \in CloseLines(fc) : j >= FirstOpen(fc)})

\* C4: the block extraction fails, with no record, for every log in which
\* no line starts with '{' or no line starting with '}' lies at or after the
\* first '{'-line (so for the empty log, and for a '{' on line 0 with no
\* later '}'-line).
C4_NoBlockFails ==
    (pc = "return" /\ ~HasBlock(arg.file_content))
        => (res.result = 1 /\ res.raw_data = None)

\* C4 witness: line 0 starts with '{', no line starts with '}', and the
\* extraction of the readable log has failed.
C4_Witness ==
    /\ pc = "return"
    /\ arg.readable
    /\ Len(arg.file_content) >= 2
    /\ arg.file_content[1].kind = "object"
    /\ CloseLines(arg.file_content) = {}
    /\ res.result = 1

\* C5: for a log with a line starting with '{' and a line starting with '}'
\* at or after it, exactly the lines from the first '{'-line to the first
\* '}'-line at or after it are parsed: the result is json.load of those
\* lines, and it is the result for those lines alone, whatever precedes and
\* follows them.
C5_ExactBlockParsed ==
    (pc = "return" /\ arg.readable /\ HasBlock(arg.file_content))
        => LET block == SubSeq(arg.file_content, FirstOpen(arg.file_content),
                               FirstCloseAfterOpen(arg.file_content))
               doc == JsonLoad(block)
           IN  /\ res.result = (IF doc.ok THEN 0 ELSE 1)
               /\ res.raw_data = (IF doc.ok THEN Some(doc.value) ELSE None)
               /\ res.result = get_raw_data_from_fio_log(TRUE, block).result
               /\ res.raw_data = get_raw_data_from_fio_log(TRUE, block).raw_data

\* C5 witness: a text line, the object { "a": 1 } on three lines, a text
\* line; the extraction returned the object.
C5_Witness ==
    /\ pc = "return"
    /\ arg.readable
    /\ Len(arg.file_content) = 5
    /\ arg.file_content[1].kind = "text"
    /\ arg.file_content[2].kind = "open"
    /\ arg.file_content[3].kind = "member"
    /\ arg.file_content[4].kind = "close"
    /\ arg.file_content[5].kind = "text"
    /\ res.result = 0
    /\ res.raw_data = Some(arg.file_content[3].key :> arg.file_content[3].val)

\* the utilization the policy gives for raw data whose extraction succeeds
UtilPolicy(raw) ==
    IF "disk_util" \notin DOMAIN raw THEN NaN
    ELSE IF Len(raw["disk_util"]) = 1 THEN raw["disk_util"][1]["util"]
    ELSE LET plain == {raw["disk_util"][i]["util"] :
                          i \in {j \in 1..Len(raw["disk_util"]) :
                                    "aggr_util" \notin DOMAIN raw["disk_util"][j]}}
         IN  CHOOSE u \in plain : \A v \in plain : ~NumLess(v, u)

\* the description of the first job is a mapping that supplies key k
Supplies(raw, k) ==
    /\ "description" \in DOMAIN raw["jobs"][1]["job options"]
    /\ raw["jobs"][1]["job options"]["description"].kind = "mapping"
    /\ k \in DOMAIN raw["jobs"][1]["job options"]["description"].value

\* C6: the util of a KPI record is 'NaN' without a disk_util list, the
\* entry's util for a list of one entry, and the least util among the
\* entries without aggr_util for a list of several.
C6_UtilPolicy ==
    (pc = "return" /\ res.result = 0) => res.perf_kpi[1]["util"] = UtilPolicy(arg)

\* C6 for the runs whose description supplies no 'util' of its own
C6_UtilPolicyUnlessTagged ==
    (pc = "return" /\ res.result = 0 /\ ~Supplies(arg, "util"))
        => res.perf_kpi[1]["util"] = UtilPolicy(arg)

\* everything lines 242-269 read is there
RequiredFieldsPresent(raw) ==
    /\ "jobs" \in DOMAIN raw
    /\ raw["jobs"] # <<>>
    /\ "job options" \in DOMAIN raw["jobs"][1]
    /\ {"rw", "bs", "iodepth", "numjobs"} \subseteq DOMAIN raw["jobs"][1]["job options"]
    /\ \A side \in {"read", "write"} :
        /\ side \in DOMAIN raw["jobs"][1]
        /\ "90.000000" \in DOMAIN raw["jobs"][1][side]["clat_ns"]["percentile"]

\* the utilization step has a value to give
UtilDerivable(raw) ==
    \/ "disk_util" \notin DOMAIN raw
    \/ Len(raw["disk_util"]) = 1
    \/ \E i \in 1..Len(raw["disk_util"]) : "aggr_util" \notin DOMAIN raw["disk_util"][i]

KpiKeys ==
    {"backend", "driver", "format", "round", "rw", "bs", "iodepth", "numjobs",
     "bw", "iops", "lat", "clat90", "util"}

\* C9: when the required fields are present (and the utilization step has a
\* value to give), the extraction succeeds whether the description is
\* absent, no expression, no mapping or a mapping; the record has all of
\* the thirteen keys, and each of driver, format, round, backend that the
\* description did not supply is 'NaN'.
C9_DescriptionNeverFails ==
    (pc = "return" /\ RequiredFieldsPresent(arg) /\ UtilDerivable(arg))
        => /\ res.result = 0
           /\ KpiKeys \subseteq DOMAIN res.perf_kpi[1]
           /\ \A k \in {"driver", "format", "round", "backend"} :
                  ~Supplies(arg, k) => res.perf_kpi[1][k] = NaN

\* C9 witness: a complete record whose description is no expression; the
\* extraction succeeded and round is 'NaN'.
C9_Witness ==
    /\ pc = "return"
    /\ RequiredFieldsPresent(arg)
    /\ "description" \in DOMAIN arg["jobs"][1]["job options"]
    /\ arg["jobs"][1]["job options"]["description"].kind = "invalid"
    /\ res.result = 0
    /\ res.perf_kpi[1]["round"] = NaN

\* the KPI records of the runs of raw_list whose extraction succeeds
RECURSIVE SuccessfulKpis(_)
SuccessfulKpis(raw_list) ==
    IF raw_list = <<>> THEN <<>>
    ELSE LET r == get_kpis_from_raw_data(raw_list[1])
         IN  (IF r.result = 0 THEN <<r.perf_kpi[1]>> ELSE <<>>)
             \o SuccessfulKpis(Tail(raw_list))

\* C1: a run whose KPI extraction fails is skipped and nothing else: when
\* the script has ended, the KPI list holds the record of every run whose
\* extraction succeeds, and the report has been built.
C1_FailedRunSkipped ==
    pc = "exit" => (perf_kpi_list = SuccessfulKpis(raw_data_list) /\ df_report # None)

\* the raw data of the logs of files whose block extraction succeeds
RECURSIVE ExtractedBlocks(_)
ExtractedBlocks(files) ==
    IF files = <<>> THEN <<>>
    ELSE LET f == files[1]
             r == get_raw_data_from_fio_log(TRUE, f.file_content)
         IN  (IF (f.ext = "fiolog" \/ (f.ext = "targz" /\ f.member)) /\ r.result = 0
              THEN r.raw_data
              ELSE <<>>)
             \o ExtractedBlocks(Tail(files))

\* C2: a log without a parseable JSON block is left out and the loading
\* goes on: the raw data list holds one entry per log processed so far
\* whose block extraction succeeded, none for any other, and the loading
\* returns 0.
C2_MalformedLogOmitted ==
    /\ pc = "load" => raw_data_list = ExtractedBlocks(SubSeq(listing, 1, fidx - 1))
    /\ pc # "load" => raw_data_list = ExtractedBlocks(listing)
    /\ pc = "calc" => return_value = Some(0)

\* C2 witness: three logs, the second of them malformed; the loading has
\* returned with the two others in the raw data list.
C2_Witness ==
    /\ pc = "calc"
    /\ Len(listing) = 3
    /\ \A i \in 1..3 : listing[i].ext = "fiolog"
    /\ get_raw_data_from_fio_log(TRUE, listing[1].file_content).result = 0
    /\ get_raw_data_from_fio_log(TRUE, listing[2].file_content).result = 1
    /\ get_raw_data_from_fio_log(TRUE, listing[3].file_content).result = 0
    /\ Len(raw_data_list) = 2
    /\ return_value = Some(0)

\* C10: once a log has been processed, neither its '.json' file nor the
\* unpack directory exists.
C10_TemporaryArtifactsRemoved == fs = {}

\* row a is at most row b in the order of the by columns, each compared
\* with less
LexLeq(a, b, by, less(_, _, _)) ==
    \/ \A k \in 1..Len(by) : ~less(by[k], a, b) /\ ~less(by[k], b, a)
    \/ \E k \in 1..Len(by) :
        /\ less(by[k], a, b)
        /\ \A m \in 1..(k - 1) : ~less(by[m], a, b) /\ ~less(by[m], b, a)

\* the cells of column c compared as the table holds them
ByCell(c, a, b) == CellLess(a.cells[c], b.cells[c])

EightColumns ==
    <<"Backend", "Driver", "Format", "RW", "BS", "IODepth", "Numjobs", "Round">>

\* rows is records in some order: row i is the record p[i], cell by cell
\* (an indicator possibly rounded)
IsArrangementOf(rows, records) ==
    /\ Len(rows) = Len(records)
    /\ \E p \in [1..Len(rows) -> 1..Len(rows)] :
        /\ \A i, j \in 1..Len(rows) : p[i] = p[j] => i = j
        /\ \A i \in 1..Len(rows) : \A c \in DOMAIN rows[i].cells :
               \/ rows[i].cells[c] = records[p[i]][KeyOf(c)]
               \/ rows[i].cells[c] = Round4(records[p[i]][KeyOf(c)])

\* C7: the report built from N KPI records has exactly N rows, one per
\* record, in ascending order of (Backend, Driver, Format, RW, BS, IODepth,
\* Numjobs, Round), with the index 0..N-1 in that order.
C7_ReportRowsSorted ==
    df_report # None
        => LET rows == df_report[1]
           IN  /\ IsArrangementOf(rows, perf_kpi_list)
               /\ \A i, j \in 1..Len(rows) :
                      i < j => LexLeq(rows[i], rows[j], EightColumns, ByCell)
               /\ \A i \in 1..Len(rows) : rows[i].index = i - 1

\* C7 witness: a report of three runs whose first row is not the first
\* record: the sort has moved rows.
C7_Witness ==
    /\ df_report # None
    /\ Len(df_report[1]) = 3
    /\ df_report[1][1].cells["IODepth"] # perf_kpi_list[1]["iodepth"]
    /\ df_report[1][2].cells["Round"] # df_report[1][3].cells["Round"]

\* the number a string of decimal digits (with whatever follows them)
\* stands for; -1 when it starts with no digit
RECURSIVE DigitsValue(_, _)
DigitsValue(codes, acc) ==
    IF codes # <<>> /\ codes[1] \in 48..57
    THEN DigitsValue(Tail(codes), (10 * acc) + (codes[1] - 48))
    ELSE acc

NumberOf(cell) ==
    IF IsInt(cell) THEN NumOf(cell)
    ELSE IF IsStr(cell) /\ Len(cell) >= 2 /\ cell[2] \in 48..57
         THEN DigitsValue(Tail(cell), 0)
         ELSE -1

\* the cells of column c compared as the claim has it: the numeric
\* dimensions by their number, the others as strings
ByDimension(c, a, b) ==
    IF /\ c \in {"BS", "IODepth", "Numjobs", "Round"}
       /\ NumberOf(a.cells[c]) >= 0
       /\ NumberOf(b.cells[c]) >= 0
    THEN NumberOf(a.cells[c]) < NumberOf(b.cells[c])
    ELSE CellLess(a.cells[c], b.cells[c])

\* C8: in the sorted report bs, iodepth, numjobs and round are in numeric
\* order (iodepth 4 before iodepth 16), backend, driver, format and rw in
\* lexical order.
C8_NumericDimensionsSortNumerically ==
    df_report # None
        => \A i, j \in 1..Len(df_report[1]) :
               i < j => LexLeq(df_report[1][i], df_report[1][j], EightColumns, ByDimension)

\* the buckets of the rows of a table
BucketsOf(df) == {[k \in 1..7 |-> df[i].cells[EightColumns[k]]] : i \in 1..Len(df)}

\* C3: the comparison has one row per distinct bucket of the test table,
\* and every row carries, for every one of BW, IOPS, LAT and Util, the six
\* statistics computed from the base and test rows of its bucket.
C3_EveryBucketEveryIndicator ==
    pc = "done"
        => LET report == bench_report[1]
           IN  /\ Len(report) = Cardinality(BucketsOf(df_test))
               /\ {report[i].bucket : i \in 1..Len(report)} = BucketsOf(df_test)
               /\ \A i \in 1..Len(report) :
                      \A ind \in {"BW", "IOPS", "LAT", "Util"} :
                          \A s \in Statistics :
                              report[i].stats[<<s, ind>>]
                                  = Sextuple(df_base, df_test, report[i].bucket, ind)[s]

\* C3 for what the loop does compute: the bandwidth of the first row
C3_FirstRowBandwidth ==
    (pc = "done" /\ bench_report[1] # <<>>)
        => /\ Len(bench_report[1]) = Cardinality(BucketsOf(df_test))
           /\ \A s \in Statistics :
                  bench_report[1][1].stats[<<s, "BW">>]
                      = Sextuple(df_base, df_test, bench_report[1][1].bucket, "BW")[s]


\* the integer part of a non-negative number: the t with t <= v < t + 1
TruncOf(v) ==
    CHOOSE t \in 0..NumOf(v) :
        (t * DenOf(v) <= NumOf(v)) /\ (NumOf(v) < (t + 1) * DenOf(v))

\* C11: the iops of a KPI record is trunc(read.iops) + trunc(write.iops),
\* each side truncated toward zero before the two are summed.
C11_IopsTruncatedBeforeSum ==
    (pc = "return" /\ res.result = 0)
        => res.perf_kpi[1]["iops"]
              = IntV(TruncOf(arg["jobs"][1]["read"]["iops"])
                     + TruncOf(arg["jobs"][1]["write"]["iops"]))

\* C11 for the runs whose description supplies no 'iops' of its own
C11_IopsTruncatedUnlessTagged ==
    (pc = "return" /\ res.result = 0 /\ ~Supplies(arg, "iops"))
        => res.perf_kpi[1]["iops"]
              = IntV(TruncOf(arg["jobs"][1]["read"]["iops"])
                     + TruncOf(arg["jobs"][1]["write"]["iops"]))

\* read.iops = 10.9 and write.iops = 5.9 without a description give 15
C11_TruncationCase ==
    /\ pc = "return"
    /\ arg["jobs"][1]["read"]["iops"] = FloatV(109, 10)
    /\ arg["jobs"][1]["write"]["iops"] = FloatV(59, 10)
    /\ "description" \notin DOMAIN arg["jobs"][1]["job options"]
    /\ res.perf_kpi[1]["iops"] = IntV(15)


\* how often x occurs in the list seq
CountIn(seq, x) == Cardinality({i \in DOMAIN seq : seq[i] = x})

\* two lists hold the same records, each as often as the other
SameRecords(a, b) ==
    /\ Len(a) = Len(b)
    /\ \A i \in DOMAIN a : CountIn(a, a[i]) = CountIn(b, a[i])

\* C12: the KPI list a report has been built from holds one record for each
\* successfully parsed run of the result_path of this invocation, and
\* nothing else: no record of an earlier invocation, no run twice.
C12_KpiListOfThisInvocation ==
    pc = "csv" => SameRecords(perf_kpi_list, SuccessfulKpis(ExtractedBlocks(listing)))

\* a second call of calculate_performance_kpis alone: the raw data list is
\* that of this invocation, the KPI list is not
C12_SecondCalculation ==
    /\ pc = "csv"
    /\ raw_data_list = ExtractedBlocks(listing)
    /\ Len(raw_data_list) = 1
    /\ Len(perf_kpi_list) = 2

\* a second invocation on a result_path without a parseable log: its report
\* holds the run of the first invocation, calculated twice
C12_SecondInvocation ==
    /\ pc = "csv"
    /\ ExtractedBlocks(listing) = <<>>
    /\ Len(raw_data_list) = 1
    /\ Len(perf_kpi_list) = 2


\* (a + b) / k for two non-negative numbers
SumOver(a, b, k) ==
    MkFloat((NumOf(a) * DenOf(b)) + (NumOf(b) * DenOf(a)), DenOf(a) * DenOf(b) * k)

\* what the job options and the read/write and disk_util data of a run give
\* for the nine entries that are not tags
DerivedEntries(raw) ==
    LET job == raw["jobs"][1]
        rd == job["read"]
        wr == job["write"]
    IN  [rw      |-> job["job options"]["rw"],
         bs      |-> job["job options"]["bs"],
         iodepth |-> job["job options"]["iodepth"],
         numjobs |-> job["job options"]["numjobs"],
         bw      |-> SumOver(rd["bw"], wr["bw"], 1024),
         iops    |-> IntV(TruncOf(rd["iops"]) + TruncOf(wr["iops"])),
         lat     |-> SumOver(rd["lat_ns"]["mean"], wr["lat_ns"]["mean"], 1000000),
         clat90  |-> SumOver(rd["clat_ns"]["percentile"]["90.000000"],
                             wr["clat_ns"]["percentile"]["90.000000"], 1000000),
         util    |-> UtilPolicy(raw)]

\* the description of the first job is a mapping
HasMapping(raw) ==
    /\ "description" \in DOMAIN raw["jobs"][1]["job options"]
    /\ raw["jobs"][1]["job options"]["description"].kind = "mapping"

\* C13: after the description mapping has been merged, rw, bs, iodepth and
\* numjobs are the values of the first job's options, and bw, iops, lat,
\* clat90 and util are the values derived from the read/write and disk_util
\* data.
C13_MergeKeepsDerivedEntries ==
    (pc = "return" /\ res.result = 0 /\ HasMapping(arg))
        => \A k \in DOMAIN DerivedEntries(arg) :
               res.perf_kpi[1][k] = DerivedEntries(arg)[k]

\* C13 for the entries whose key the description mapping does not supply
C13_MergeKeepsEntriesNotSupplied ==
    (pc = "return" /\ res.result = 0 /\ HasMapping(arg))
        => \A k \in DOMAIN DerivedEntries(arg) :
               ~Supplies(arg, k) => res.perf_kpi[1][k] = DerivedEntries(arg)[k]

\* a description that supplies 'rw' and 'util': the record says write and 5
\* for a read run without disk_util
C13_Overwritten ==
    /\ pc = "return"
    /\ res.result = 0
    /\ Supplies(arg, "rw")
    /\ Supplies(arg, "util")
    /\ arg["jobs"][1]["job options"]["rw"] = S_read
    /\ "disk_util" \notin DOMAIN arg
    /\ res.perf_kpi[1]["rw"] = S_write
    /\ res.perf_kpi[1]["util"] = IntV(5)

=============================================================================
